---- MODULE Spec2Model ----
(***************************************************************************)
(* Model of the hassio_smarthome custom integration: the MQTT channel      *)
(* entities of light.py (SmarthomeMqttLight) and sensor.py                 *)
(* (SmarthomeMqttSensor), and the config flow / platform setup that        *)
(* creates them.                                                           *)
(*                                                                         *)
(* Spec     one channel entity, its subscription, its inbound messages and *)
(*          (relay light) its commands.                                    *)
(* SpecOptimistic  the same for the optimistic light of lights.py.         *)
(* SpecOptions     the options flow of a config entry (options_flow.py).   *)
(* SpecHub  the config flow and the platform setup of the config entries.  *)
(***************************************************************************)
EXTENDS Integers, Sequences, FiniteSets, TLC

(***************************************************************************)
(* Bounds of the model.                                                    *)
(***************************************************************************)
MaxLen == 2        \* longest payload, in characters (bytes)
MaxCalls == 4      \* calls made on the entity per behaviour: attach, detach,
                   \* handler runs, turn_on/turn_off
MaxModuleId == 1   \* largest module_id
MaxCount == 2      \* largest relay_count / button_count
MaxEntries == 2    \* config entries created per behaviour
MaxLines == 2      \* longest mapping text of the options form, in lines

(***************************************************************************)
(* Text.  A str is a sequence of characters, a bytes object a sequence of  *)
(* bytes; "xFF" is a byte that is not valid UTF-8.                         *)
(***************************************************************************)
Chars == {"0", "1", " "}
Whitespace == {" "}
Digits == <<"0", "1", "2", "3", "4", "5", "6", "7", "8", "9">>
InvalidByte == "xFF"

SeqsUpTo(S, n) == UNION {[1..k -> S] : k \in 0..n}

Texts == SeqsUpTo(Chars, MaxLen)
\* bytes payloads: the byte of a digit, and the byte that does not decode
ByteStrings == SeqsUpTo({"1", InvalidByte}, MaxLen)

\* msg.payload: a str or a bytes object
Payloads ==
  {[fmt |-> "str", data |-> d] : d \in Texts}
    \cup {[fmt |-> "bytes", data |-> d] : d \in ByteStrings}

(***************************************************************************)
(* Python values held in payload / _state.                                 *)
(***************************************************************************)
PyStr(s) == [t |-> "str", v |-> s]
PyInt(n) == [t |-> "int", v |-> n]
PyBool(b) == [t |-> "bool", v |-> b]
PyNone == [t |-> "none", v |-> <<>>]

\* payload.decode("utf-8"): fails on a byte that is not valid UTF-8
DecodableUtf8(d) == \A k \in 1..Len(d) : d[k] # InvalidByte

RECURSIVE LStrip(_)
LStrip(s) ==
  IF s # <<>> /\ Head(s) \in Whitespace THEN LStrip(Tail(s)) ELSE s

RECURSIVE RStrip(_)
RStrip(s) ==
  IF s # <<>> /\ s[Len(s)] \in Whitespace
    THEN RStrip(SubSeq(s, 1, Len(s) - 1))
    ELSE s

\* str.strip()
Strip(s) == RStrip(LStrip(s))

DigitOf(n) == Digits[n + 1]
DigitValue(c) == CHOOSE n \in 0..9 : Digits[n + 1] = c
IsDigit(c) == \E n \in 0..9 : Digits[n + 1] = c

RECURSIVE DecStr(_)
\* str(n) for an int n >= 0
DecStr(n) == IF n < 10 THEN <<DigitOf(n)>> ELSE Append(DecStr(n \div 10), DigitOf(n % 10))

RECURSIVE ParseDec(_)
ParseDec(s) ==
  IF s = <<>> THEN 0
  ELSE 10 * ParseDec(SubSeq(s, 1, Len(s) - 1)) + DigitValue(s[Len(s)])

\* str(payload)
PyStrOf(x) ==
  CASE x.t = "str" -> x.v
    [] x.t = "int" -> DecStr(x.v)
    [] x.t = "bool" -> IF x.v THEN <<"T", "r", "u", "e">> ELSE <<"F", "a", "l", "s", "e">>
    [] OTHER -> <<"N", "o", "n", "e">>

(***************************************************************************)
(* const.py and the topic scheme of the entity constructors.               *)
(***************************************************************************)
DEFAULT_VALUE_TEMPLATE == "{{ value }}"
NO_TEMPLATE == ""
\* a user-configured template other than the default one
CUSTOM_TEMPLATE == "{{ custom }}"
ValueTemplates == {NO_TEMPLATE, DEFAULT_VALUE_TEMPLATE, CUSTOM_TEMPLATE}

\* light.py: f"modules/{module_id}/relays/{relay_index}"
LightStateTopic(module_id, relay_index) ==
  <<"modules", DecStr(module_id), "relays", DecStr(relay_index)>>

\* light.py: f"modules/{module_id}/relays/{relay_index}/set"
LightCommandTopic(module_id, relay_index) ==
  <<"modules", DecStr(module_id), "relays", DecStr(relay_index), "set">>

\* sensor.py: the state topic of a relay or a button sensor
SensorStateTopic(module_id, device_type, sensor_index) ==
  IF device_type = "relay"
    THEN <<"modules", DecStr(module_id), "relays", DecStr(sensor_index)>>
    ELSE <<"modules", DecStr(module_id), "buttons", DecStr(sensor_index)>>

\* light.py / sensor.py: the unique_id of an entity
LightUniqueId(module_id, relay_index) ==
  <<"smarthome", "modules", DecStr(module_id), "lights", DecStr(relay_index)>>

SensorUniqueId(module_id, device_type, sensor_index) ==
  IF device_type = "relay"
    THEN <<"smarthome", "modules", DecStr(module_id), "relays", DecStr(sensor_index)>>
    ELSE <<"smarthome", "modules", DecStr(module_id), "buttons", DecStr(sensor_index)>>

\* SmarthomeMqttLight.__init__ (light.py)
NewLight(module_id, relay_index, value_template) ==
  [platform |-> "light", module_id |-> module_id, index |-> relay_index,
   device_type |-> "relay", value_template |-> value_template,
   unique_id |-> LightUniqueId(module_id, relay_index),
   state_topic |-> LightStateTopic(module_id, relay_index),
   command_topic |-> LightCommandTopic(module_id, relay_index)]

\* SmarthomeMqttLight.__init__ (lights.py), the optimistic light
NewOptimisticLight(module_id, relay_index, value_template) ==
  [platform |-> "lights", module_id |-> module_id, index |-> relay_index,
   device_type |-> "relay", value_template |-> value_template,
   unique_id |-> LightUniqueId(module_id, relay_index),
   state_topic |-> LightStateTopic(module_id, relay_index),
   command_topic |-> LightCommandTopic(module_id, relay_index)]

\* SmarthomeMqttSensor.__init__ (sensor.py); a sensor has no command topic
NewSensor(module_id, sensor_index, device_type, value_template) ==
  [platform |-> "sensor", module_id |-> module_id, index |-> sensor_index,
   device_type |-> device_type, value_template |-> value_template,
   unique_id |-> SensorUniqueId(module_id, device_type, sensor_index),
   state_topic |-> SensorStateTopic(module_id, device_type, sensor_index),
   command_topic |-> <<>>]

\* an initial _state that is unset for every class, as in lights.py
InitialStateUnset(platform) == PyNone

\* the initial _state: False for a light (light.py), None for a sensor and
\* for an optimistic light (lights.py)
InitialState(platform) == IF platform = "light" THEN PyBool(FALSE) ELSE PyNone

(***************************************************************************)
(* The payload codec of _message_received.                                 *)
(***************************************************************************)
\* if isinstance(payload, bytes): payload = payload.decode("utf-8")
DecodePayload(p) ==
  IF p.fmt = "bytes" /\ ~DecodableUtf8(p.data)
    THEN [ok |-> FALSE, text |-> <<>>]
    ELSE [ok |-> TRUE, text |-> p.data]

\* a rendered string that reads as a decimal integer without leading zeros
IsIntLiteral(s) ==
  /\ s # <<>>
  /\ \A k \in 1..Len(s) : IsDigit(s[k])
  /\ (Len(s) > 1 => s[1] # "0")

\* the host's Template.async_render: the rendered text is stripped and
\* parsed into a native value
RenderIdentity(text) ==
  LET s == Strip(text)
  IN IF IsIntLiteral(s) THEN PyInt(ParseDec(s)) ELSE PyStr(s)

\* what a user-configured template may evaluate to
CustomResults == {PyInt(1), PyStr(<<" ", "0">>), PyBool(TRUE), PyNone}

TemplateFailed == [ok |-> FALSE, value |-> PyNone]

\* the outcomes of Template(...).async_render({"value": payload}): a value, or
\* an exception caught by "except Exception"
TemplateOutcomes(value_template, text) ==
  CASE value_template = NO_TEMPLATE -> {[ok |-> TRUE, value |-> PyStr(text)]}
    [] value_template = DEFAULT_VALUE_TEMPLATE ->
         {[ok |-> TRUE, value |-> RenderIdentity(text)]}
    [] OTHER -> {[ok |-> TRUE, value |-> v] : v \in CustomResults} \cup {TemplateFailed}

\* payload after the template block: the template's value, or the decoded
\* text when there is no template or its evaluation failed
AfterTemplate(value_template, text, r) ==
  IF value_template # NO_TEMPLATE /\ r.ok THEN r.value ELSE PyStr(text)

\* a handler that collapses every payload to a boolean (as lights.py does)
LightInterpretCollapsing(st, final) ==
  IF final = <<"1">> THEN PyBool(TRUE) ELSE PyBool(FALSE)

\* light.py: the if/elif/else on the stripped payload
LightInterpret(st, final) ==
  IF final = <<"1">> THEN PyBool(TRUE)
  ELSE IF final = <<"0">> THEN PyBool(FALSE)
  ELSE st

LightUnexpected(final) == final # <<"1">> /\ final # <<"0">>

\* SmarthomeMqttLight._message_received (light.py), r the template's outcome
LightMessageReceived(value_template, st, p, r) ==
  LET dec == DecodePayload(p)
      tplFailed == value_template # NO_TEMPLATE /\ ~r.ok
      final == Strip(PyStrOf(AfterTemplate(value_template, dec.text, r)))
  IN IF ~dec.ok
       THEN [raised |-> TRUE, state |-> st, writes |-> 0, errors |-> 0,
             decoded |-> FALSE, tplFailed |-> FALSE, final |-> <<>>,
             events |-> 0]
       ELSE [raised |-> FALSE, state |-> LightInterpret(st, final),
             writes |-> 1,
             errors |-> (IF tplFailed THEN 1 ELSE 0)
                          + (IF LightUnexpected(final) THEN 1 ELSE 0),
             decoded |-> ~tplFailed /\ ~LightUnexpected(final),
             tplFailed |-> tplFailed, final |-> final, events |-> 0]

\* the events SmarthomeMqttSensor._message_received fires on the host's bus
\* for the value it stores: sensor.py makes no bus call
BusEvents(device_type, value) == <<>>

\* SmarthomeMqttSensor._message_received (sensor.py); final is the decoded
\* msg.payload
SensorMessageReceived(device_type, value_template, st, p, r) ==
  LET dec == DecodePayload(p)
      tplFailed == value_template # NO_TEMPLATE /\ ~r.ok
      value == AfterTemplate(value_template, dec.text, r)
  IN IF ~dec.ok
       THEN [raised |-> TRUE, state |-> st, writes |-> 0, errors |-> 0,
             decoded |-> FALSE, tplFailed |-> FALSE, final |-> <<>>,
             events |-> 0]
       ELSE [raised |-> FALSE, state |-> value, writes |-> 1,
             errors |-> IF tplFailed THEN 1 ELSE 0,
             decoded |-> ~tplFailed, tplFailed |-> tplFailed,
             final |-> dec.text,
             events |-> Len(BusEvents(device_type, value))]

\* str.lower() on the characters a payload can hold
LowerChar(c) ==
  CASE c = "O" -> "o"
    [] c = "N" -> "n"
    [] c = "F" -> "f"
    [] OTHER -> c

Lower(s) == [k \in 1..Len(s) |-> LowerChar(s[k])]

\* lights.py: the payloads that mean ON
OnWords == {<<"o", "n">>, <<"t", "r", "u", "e">>, <<"1">>}

\* SmarthomeMqttLight._message_received (lights.py): payload.lower() raises
\* AttributeError when the template's value is not a str
OptimisticMessageReceived(value_template, st, p, r) ==
  LET dec == DecodePayload(p)
      tplFailed == value_template # NO_TEMPLATE /\ ~r.ok
      value == AfterTemplate(value_template, dec.text, r)
  IN IF ~dec.ok
       THEN [raised |-> TRUE, state |-> st, writes |-> 0, errors |-> 0,
             decoded |-> FALSE, tplFailed |-> FALSE, final |-> <<>>,
             events |-> 0]
     ELSE IF value.t # "str"
       THEN [raised |-> TRUE, state |-> st, writes |-> 0,
             errors |-> IF tplFailed THEN 1 ELSE 0,
             decoded |-> FALSE, tplFailed |-> tplFailed, final |-> <<>>,
             events |-> 0]
       ELSE [raised |-> FALSE, state |-> PyBool(Lower(value.v) \in OnWords),
             writes |-> 1, errors |-> IF tplFailed THEN 1 ELSE 0,
             decoded |-> ~tplFailed, tplFailed |-> tplFailed,
             final |-> value.v, events |-> 0]

\* a light.py that publishes the word lights.py publishes to turn on
TurnOnPayloadWord == <<"O", "N">>

\* the payload of async_turn_on / async_turn_off (lights.py)
OptimisticTurnOnPayload == <<"O", "N">>
OptimisticTurnOffPayload == <<"O", "F", "F">>

\* the payload of async_turn_on / async_turn_off (light.py)
TurnOnPayload == <<"1">>
TurnOffPayload == <<"0">>
PublishQos == 1
SubscribeQos == 1
NoHandle == 0

(***************************************************************************)
(* State.                                                                  *)
(*   self                the entity under test (its constructor's fields)  *)
(*   state               self._state                                       *)
(*   unsubscribe_mqtt    self._unsubscribe_mqtt (NoHandle: None)           *)
(*   mqtt_subscriptions  the transport's active subscriptions              *)
(*   subscribe_calls     async_subscribe calls made so far                 *)
(*   unsubscribe_log     the unsubscribe handles invoked, in order         *)
(*   detach_calls        async_will_remove_from_hass calls made so far     *)
(*   inflight            the handler run the transport has scheduled       *)
(*   received            handler runs so far                               *)
(*   published           the async_publish calls, in order                 *)
(*   publish_failed      the positions in published of the calls that      *)
(*                       raised: the transport did not take the message    *)
(*   commands            the turn_on/turn_off calls, in order              *)
(*   ha_state_writes     async_write_ha_state calls so far                 *)
(*   decoded_ok          handler runs whose decode succeeded               *)
(*   last                the last operation: which one, and for a handler  *)
(*                       run its stripped payload (light), whether it      *)
(*                       raised, its _LOGGER.error calls, whether the      *)
(*                       template failed, the bus events it fired, and     *)
(*                       the command it echoes                             *)
(*   entries, entities, forwarded, flow   the hub (see SpecHub)            *)
(*   options, options_flow   the options of a config entry (SpecOptions)   *)
(***************************************************************************)
VARIABLES self, state, unsubscribe_mqtt, mqtt_subscriptions, subscribe_calls,
          unsubscribe_log, detach_calls, inflight, received, published,
          publish_failed, commands, ha_state_writes, decoded_ok, last,
          entries, entities, forwarded, flow, options, options_flow

chanVars == <<self, state, unsubscribe_mqtt, mqtt_subscriptions, subscribe_calls,
              unsubscribe_log, detach_calls, inflight, received, published,
              publish_failed, commands, ha_state_writes, decoded_ok, last>>
optVars == <<options, options_flow>>
hubVars == <<entries, entities, forwarded, flow, optVars>>
vars == <<chanVars, hubVars>>

ModuleIds == 0..MaxModuleId
Indices == 0..(MaxCount - 1)

\* the identities (module_id, index) of the entity under test: the smallest
\* and the largest
ChannelIds == {<<0, 0>>, <<MaxModuleId, MaxCount - 1>>}

\* calls made on the entity so far, the scheduled handler run included
Calls == subscribe_calls + detach_calls + received + Len(inflight) + Len(commands)

\* the record kept in last
Did(op, res, echo) ==
  [op |-> op, final |-> res.final, raised |-> res.raised, errors |-> res.errors,
   tplFailed |-> res.tplFailed, events |-> res.events, echo |-> echo]

NoResult ==
  [raised |-> FALSE, state |-> PyNone, writes |-> 0, errors |-> 0,
   decoded |-> FALSE, tplFailed |-> FALSE, final |-> <<>>, events |-> 0]

HubIdle ==
  /\ entries = <<>>
  /\ entities = <<>>
  /\ forwarded = <<>>
  /\ flow = [type |-> "none", errors |-> {},
             user_input |-> [module_id |-> PyNone, relay_count |-> PyNone,
                             button_count |-> PyNone,
                             value_template |-> DEFAULT_VALUE_TEMPLATE]]
  /\ options = PyNone
  /\ options_flow = [type |-> "none", errors |-> {}, default |-> <<>>,
                     user_input |-> [kind |-> "none", mapping |-> <<>>]]

\* one entity, constructed and not yet added
Init ==
  /\ self \in {NewLight(c[1], c[2], t) : c \in ChannelIds, t \in ValueTemplates}
                \cup {NewSensor(c[1], c[2], d, t) : c \in ChannelIds,
                                                    d \in {"relay", "button"},
                                                    t \in ValueTemplates}
  /\ state = InitialState(self.platform)
  /\ unsubscribe_mqtt = NoHandle
  /\ mqtt_subscriptions = {}
  /\ subscribe_calls = 0
  /\ unsubscribe_log = <<>>
  /\ detach_calls = 0
  /\ inflight = <<>>
  /\ received = 0
  /\ published = <<>>
  /\ publish_failed = {}
  /\ commands = <<>>
  /\ ha_state_writes = 0
  /\ decoded_ok = 0
  /\ last = Did("init", NoResult, "none")
  /\ HubIdle

\* async_added_to_hass (light.py, sensor.py): subscribe, keep the handle
AddedToHass ==
  /\ Calls < MaxCalls
  /\ subscribe_calls' = subscribe_calls + 1
  /\ mqtt_subscriptions' = mqtt_subscriptions \cup
       {[handle |-> subscribe_calls + 1, topic |-> self.state_topic,
         qos |-> SubscribeQos]}
  /\ unsubscribe_mqtt' = subscribe_calls + 1
  /\ last' = Did("attach", NoResult, "none")
  /\ UNCHANGED <<self, state, unsubscribe_log, detach_calls, inflight, received,
                 published, publish_failed, commands, ha_state_writes,
                 decoded_ok>>
  /\ UNCHANGED hubVars

\* the handles async_will_remove_from_hass invokes
HandlesToInvoke(handle) == IF handle # NoHandle THEN <<handle>> ELSE <<>>

\* async_will_remove_from_hass (light.py, sensor.py)
WillRemoveFromHass ==
  /\ Calls < MaxCalls
  /\ detach_calls' = detach_calls + 1
  /\ unsubscribe_log' = unsubscribe_log \o HandlesToInvoke(unsubscribe_mqtt)
  /\ mqtt_subscriptions' =
       {s \in mqtt_subscriptions :
          \A k \in 1..Len(HandlesToInvoke(unsubscribe_mqtt)) :
            s.handle # HandlesToInvoke(unsubscribe_mqtt)[k]}
  /\ last' = Did("detach", NoResult, "none")
  /\ UNCHANGED <<self, state, unsubscribe_mqtt, subscribe_calls, inflight, received,
                 published, publish_failed, commands, ha_state_writes,
                 decoded_ok>>
  /\ UNCHANGED hubVars

\* the transport has a message on the state topic for the subscribed
\* callback: the handler run is scheduled
Deliver ==
  /\ mqtt_subscriptions # {}
  /\ inflight = <<>>
  /\ Calls < MaxCalls
  /\ inflight' = <<[source |-> "transport", cmd |-> 0]>>
  /\ UNCHANGED <<self, state, unsubscribe_mqtt, mqtt_subscriptions, subscribe_calls,
                 unsubscribe_log, detach_calls, received, published,
                 publish_failed, commands, ha_state_writes, decoded_ok, last>>
  /\ UNCHANGED hubVars

\* the hub republishes the payload of a command it got, unchanged, on the
\* state topic
Echo ==
  /\ mqtt_subscriptions # {}
  /\ inflight = <<>>
  /\ Calls < MaxCalls
  /\ \E k \in 1..Len(published) :
       /\ k <= Len(commands)
       /\ k \notin publish_failed
       /\ inflight' = <<[source |-> "echo", cmd |-> k]>>
  /\ UNCHANGED <<self, state, unsubscribe_mqtt, mqtt_subscriptions, subscribe_calls,
                 unsubscribe_log, detach_calls, received, published,
                 publish_failed, commands, ha_state_writes, decoded_ok, last>>
  /\ UNCHANGED hubVars

\* msg.payload of a scheduled handler run: any payload from the transport, the
\* published payload as text for an echo
PayloadsOf(m) ==
  IF m.source = "echo"
    THEN {[fmt |-> "str", data |-> published[m.cmd].payload]}
    ELSE Payloads

EchoOf(m) == IF m.source = "echo" THEN commands[m.cmd] ELSE "none"

\* _message_received of the entity's class
MessageReceived(e, st, p, r) ==
  IF e.platform = "light"
    THEN LightMessageReceived(e.value_template, st, p, r)
  ELSE IF e.platform = "lights"
    THEN OptimisticMessageReceived(e.value_template, st, p, r)
    ELSE SensorMessageReceived(e.device_type, e.value_template, st, p, r)

\* a handler that confirms what it received by publishing it back
HandlerPublishesBack(e, res) ==
  <<[topic |-> e.state_topic, payload |-> res.final, qos |-> PublishQos]>>

\* the async_publish calls of _message_received (light.py, sensor.py): none
HandlerPublishes(e, res) == <<>>

\* the scheduled handler run takes place: _message_received(msg)
Handle ==
  /\ inflight # <<>>
  /\ \E p \in PayloadsOf(Head(inflight)) :
       \E r \in TemplateOutcomes(self.value_template, DecodePayload(p).text) :
          LET res == MessageReceived(self, state, p, r)
          IN /\ state' = res.state
             /\ ha_state_writes' = ha_state_writes + res.writes
             /\ decoded_ok' = decoded_ok + (IF res.decoded THEN 1 ELSE 0)
             /\ last' = Did("message", res, EchoOf(Head(inflight)))
             /\ published' = published \o HandlerPublishes(self, res)
  /\ inflight' = <<>>
  /\ received' = received + 1
  /\ UNCHANGED <<self, unsubscribe_mqtt, mqtt_subscriptions, subscribe_calls,
                 unsubscribe_log, detach_calls, publish_failed, commands>>
  /\ UNCHANGED hubVars

\* a turn_on that publishes to the state topic instead
TurnOnPublishesToStateTopic(e) ==
  <<[topic |-> e.state_topic, payload |-> TurnOnPayload, qos |-> PublishQos]>>

\* the async_publish calls of async_turn_on / async_turn_off (light.py)
TurnOnPublishes(e) ==
  <<[topic |-> e.command_topic, payload |-> TurnOnPayload, qos |-> PublishQos]>>

TurnOffPublishes(e) ==
  <<[topic |-> e.command_topic, payload |-> TurnOffPayload, qos |-> PublishQos]>>

\* the async_publish calls of async_turn_on / async_turn_off (lights.py)
OptimisticTurnOnPublishes(e) ==
  <<[topic |-> e.command_topic, payload |-> OptimisticTurnOnPayload,
     qos |-> PublishQos]>>

OptimisticTurnOffPublishes(e) ==
  <<[topic |-> e.command_topic, payload |-> OptimisticTurnOffPayload,
     qos |-> PublishQos]>>

\* the optimistic update of lights.py
StateAfterCommandOptimistic(st, cmd) == PyBool(cmd = "turn_on")

\* self._state after async_turn_on / async_turn_off (light.py): not touched
StateAfterCommand(st, cmd) == st

\* an optimistic light that sets its state before the publish
OptimisticStateBeforePublish(st, cmd, ok) == PyBool(cmd = "turn_on")

\* self._state after async_turn_on / async_turn_off (lights.py): assigned
\* after "await async_publish" has returned, not reached when it raised
OptimisticStateAfterCommand(st, cmd, ok) ==
  IF ok THEN PyBool(cmd = "turn_on") ELSE st

\* the async_write_ha_state calls of async_turn_on / async_turn_off
\* (lights.py): one, after the assignment
OptimisticWritesAfterCommand(ok) == IF ok THEN 1 ELSE 0

\* what a command leaves behind, by the entity's class; ok: async_publish
\* returned
CommandResult(e, st, cmd, ok) ==
  IF e.platform = "light"
    THEN [state |-> StateAfterCommand(st, cmd), writes |-> 0,
          published |-> IF cmd = "turn_on" THEN TurnOnPublishes(e)
                                          ELSE TurnOffPublishes(e)]
    ELSE [state |-> OptimisticStateAfterCommand(st, cmd, ok),
          writes |-> OptimisticWritesAfterCommand(ok),
          published |-> IF cmd = "turn_on" THEN OptimisticTurnOnPublishes(e)
                                          ELSE OptimisticTurnOffPublishes(e)]

\* async_turn_on / async_turn_off: async_publish returns, or raises because
\* the transport does not take the message
Command(cmd) ==
  /\ self.platform \in {"light", "lights"}
  /\ Calls < MaxCalls
  /\ \E ok \in BOOLEAN :
       LET res == CommandResult(self, state, cmd, ok)
       IN /\ commands' = Append(commands, cmd)
          /\ published' = published \o res.published
          /\ publish_failed' = IF ok THEN publish_failed
                                     ELSE publish_failed \cup {Len(published) + 1}
          /\ state' = res.state
          /\ ha_state_writes' = ha_state_writes + res.writes
          /\ last' = Did(cmd, [NoResult EXCEPT !.raised = ~ok], "none")
  /\ UNCHANGED <<self, unsubscribe_mqtt, mqtt_subscriptions, subscribe_calls,
                 unsubscribe_log, detach_calls, inflight, received, decoded_ok>>
  /\ UNCHANGED hubVars

\* async_turn_on (light.py, lights.py)
TurnOn == Command("turn_on")

\* async_turn_off (light.py, lights.py)
TurnOff == Command("turn_off")

Next ==
  \/ AddedToHass
  \/ WillRemoveFromHass
  \/ Deliver
  \/ Echo
  \/ Handle
  \/ TurnOn
  \/ TurnOff

Spec == Init /\ [][Next]_vars

\* one optimistic light (lights.py), constructed and not yet added
InitOptimistic ==
  /\ self \in {NewOptimisticLight(c[1], c[2], t) :
                  c \in ChannelIds, t \in ValueTemplates}
  /\ state = InitialState(self.platform)
  /\ unsubscribe_mqtt = NoHandle
  /\ mqtt_subscriptions = {}
  /\ subscribe_calls = 0
  /\ unsubscribe_log = <<>>
  /\ detach_calls = 0
  /\ inflight = <<>>
  /\ received = 0
  /\ published = <<>>
  /\ publish_failed = {}
  /\ commands = <<>>
  /\ ha_state_writes = 0
  /\ decoded_ok = 0
  /\ last = Did("init", NoResult, "none")
  /\ HubIdle

SpecOptimistic == InitOptimistic /\ [][Next]_vars

(***************************************************************************)
(* The hub: the config flow (config_flow.py), the setup of a config entry  *)
(* (__init__.py) and the platforms' async_setup_entry.                     *)
(*   entries    the config entries created, in order (their data)          *)
(*   forwarded  the indices of the entries set up, in order                *)
(*   entities   the batches handed to async_add_entities, in order         *)
(*   flow       the last config flow step: its user_input and its result   *)
(***************************************************************************)
Missing == [t |-> "missing", v |-> <<>>]
NotANumber == PyStr(<<"x">>)

\* what a form field may hold: negative, zero, the largest value, not a
\* number, or left out
ModuleIdInputs ==
  {PyInt(-1), PyInt(0), PyInt(MaxModuleId), NotANumber, Missing}
CountInputs == {PyInt(-1), PyInt(0), PyInt(MaxCount), NotANumber, Missing}

UserInputs ==
  {[module_id |-> m, relay_count |-> r, button_count |-> b,
    value_template |-> DEFAULT_VALUE_TEMPLATE] :
     m \in ModuleIdInputs, r \in CountInputs, b \in CountInputs}

\* user_input=None: the step is entered without a submission
NoUserInput ==
  [module_id |-> PyNone, relay_count |-> PyNone, button_count |-> PyNone,
   value_template |-> DEFAULT_VALUE_TEMPLATE]

\* int(x) succeeds
IntOk(x) == x.t = "int" \/ (x.t = "str" /\ IsIntLiteral(x.v))
\* int(x)
IntOf(x) == IF x.t = "int" THEN x.v ELSE ParseDec(x.v)

\* user_input.get(key, 0)
GetOr0(x) == IF x = Missing THEN PyInt(0) ELSE x

\* a validation that lets a module with no relay and no button through
ConfigErrorsAllowEmpty(user_input) ==
  IF \/ user_input.module_id = Missing
     \/ ~IntOk(user_input.module_id)
     \/ ~IntOk(GetOr0(user_input.relay_count))
     \/ ~IntOk(GetOr0(user_input.button_count))
    THEN {"base"}
    ELSE {k \in {"module_id"} : IntOf(user_input.module_id) < 0}
           \cup {k \in {"relay_count"} :
                   IntOf(GetOr0(user_input.relay_count)) < 0}
           \cup {k \in {"button_count"} :
                   IntOf(GetOr0(user_input.button_count)) < 0}

\* the errors dict of async_step_user (config_flow.py), as its set of keys
ConfigErrors(user_input) ==
  IF \/ user_input.module_id = Missing
     \/ ~IntOk(user_input.module_id)
     \/ ~IntOk(GetOr0(user_input.relay_count))
     \/ ~IntOk(GetOr0(user_input.button_count))
    THEN {"base"}
    ELSE LET module_id == IntOf(user_input.module_id)
             relay_count == IntOf(GetOr0(user_input.relay_count))
             button_count == IntOf(GetOr0(user_input.button_count))
         IN {k \in {"module_id"} : module_id < 0}
              \cup {k \in {"relay_count"} : relay_count < 0}
              \cup {k \in {"button_count"} : button_count < 0}
              \cup {k \in {"base"} : relay_count = 0 /\ button_count = 0}

\* SmarthomeConfigFlow.async_step_user (config_flow.py)
StepUser ==
  /\ Len(entries) < MaxEntries
  /\ \E user_input \in UserInputs \cup {NoUserInput} :
       IF user_input # NoUserInput /\ ConfigErrors(user_input) = {}
         THEN /\ entries' = Append(entries, user_input)
              /\ flow' = [type |-> "create_entry", errors |-> {},
                          user_input |-> user_input]
         ELSE /\ entries' = entries
              /\ flow' = [type |-> "form",
                          errors |-> IF user_input = NoUserInput
                                       THEN {} ELSE ConfigErrors(user_input),
                          user_input |-> user_input]
  /\ UNCHANGED <<entities, forwarded, optVars>>
  /\ UNCHANGED chanVars

\* the platforms of a hub that forwards to light.py as well
PlatformsWithLight == <<"sensor", "light">>

\* __init__.py: the platforms a config entry is forwarded to
PLATFORMS == <<"sensor">>

\* a range that counts from 1
RangeFromOne(n) == [k \in 1..n |-> k]

\* range(n): 0, ..., n - 1, as the positions 1..n of a list
Range(n) == [k \in 1..n |-> k - 1]

\* sensor.py async_setup_entry: the batch handed to async_add_entities
SensorSetupEntry(data) ==
  LET module_id == data.module_id.v
      relay_count == GetOr0(data.relay_count).v
      button_count == GetOr0(data.button_count).v
      relays == [k \in 1..relay_count |->
                   NewSensor(module_id, Range(relay_count)[k], "relay",
                             data.value_template)]
      buttons == [k \in 1..button_count |->
                    NewSensor(module_id, Range(button_count)[k], "button",
                              data.value_template)]
  IN relays \o buttons

\* light.py async_setup_entry: the batch handed to async_add_entities
LightSetupEntry(data) ==
  LET module_id == data.module_id.v
      relay_count == GetOr0(data.relay_count).v
  IN [k \in 1..relay_count |->
        NewLight(module_id, Range(relay_count)[k], data.value_template)]

PlatformSetupEntry(platform, data) ==
  IF platform = "sensor" THEN SensorSetupEntry(data) ELSE LightSetupEntry(data)

\* async_forward_entry_setups(entry, PLATFORMS): one batch per platform
ForwardEntrySetups(data) ==
  [k \in 1..Len(PLATFORMS) |-> PlatformSetupEntry(PLATFORMS[k], data)]

\* __init__.py async_setup_entry: an entry is set up once
SetupEntry ==
  /\ \E e \in 1..Len(entries) :
       /\ \A k \in 1..Len(forwarded) : forwarded[k] # e
       /\ forwarded' = Append(forwarded, e)
       /\ entities' = entities \o ForwardEntrySetups(entries[e])
  /\ UNCHANGED <<entries, flow, optVars>>
  /\ UNCHANGED chanVars

\* no entity under test: the hub's behaviours start with no entry
InitHub ==
  /\ self = NewSensor(0, 0, "relay", DEFAULT_VALUE_TEMPLATE)
  /\ state = InitialState(self.platform)
  /\ unsubscribe_mqtt = NoHandle
  /\ mqtt_subscriptions = {}
  /\ subscribe_calls = 0
  /\ unsubscribe_log = <<>>
  /\ detach_calls = 0
  /\ inflight = <<>>
  /\ received = 0
  /\ published = <<>>
  /\ publish_failed = {}
  /\ commands = <<>>
  /\ ha_state_writes = 0
  /\ decoded_ok = 0
  /\ last = Did("init", NoResult, "none")
  /\ HubIdle

\* every entity object constructed so far: <<batch, position>>
EntityIds ==
  UNION {{<<b, j>> : j \in 1..Len(entities[b])} : b \in 1..Len(entities)}
EntityAt(id) == entities[id[1]][id[2]]

\* the async_publish calls of a turn_on / turn_off service call on a registered
\* entity: only light.py's entities have async_turn_on / async_turn_off
CommandPublishes(e, cmd) ==
  IF e.platform # "light" THEN <<>>
  ELSE IF cmd = "turn_on" THEN TurnOnPublishes(e) ELSE TurnOffPublishes(e)

\* a turn_on / turn_off service call reaches a registered entity
ServiceCall ==
  /\ Len(published) < MaxCalls
  /\ \E id \in EntityIds, cmd \in {"turn_on", "turn_off"} :
       published' = published \o CommandPublishes(EntityAt(id), cmd)
  /\ UNCHANGED <<self, state, unsubscribe_mqtt, mqtt_subscriptions,
                 subscribe_calls, unsubscribe_log, detach_calls, inflight,
                 received, publish_failed, commands, ha_state_writes,
                 decoded_ok, last>>
  /\ UNCHANGED hubVars

NextHub ==
  \/ StepUser
  \/ SetupEntry
  \/ ServiceCall

SpecHub == InitHub /\ [][NextHub]_vars

(***************************************************************************)
(* The options flow (options_flow.py).  The mapping text is a sequence of  *)
(* lines; a line is a "key: value" pair, a "- value" item, a plain scalar, *)
(* a comment, or a line the YAML parser rejects (an unclosed "[").         *)
(*   options       config_entry.options.get("mapping"): None, or the       *)
(*                 mapping stored by async_create_entry                    *)
(*   options_flow  the last options flow step: its user_input and result   *)
(***************************************************************************)
PyList(s) == [t |-> "list", v |-> s]
PyDict(d) == [t |-> "dict", v |-> d]

PairLine(k, v) == [kind |-> "pair", key |-> k, value |-> v]
ItemLine == [kind |-> "item", key |-> 0, value |-> PyInt(4)]
ScalarLine == [kind |-> "scalar", key |-> 0, value |-> PyInt(4)]
CommentLine == [kind |-> "comment", key |-> 0, value |-> PyNone]
BrokenLine == [kind |-> "broken", key |-> 0, value |-> PyNone]

\* the lines of the example in DEFAULT_MAPPING_YAML, a second value for its
\* first key, and one line of each other kind
YamlLines ==
  {PairLine(12, PyInt(4)), PairLine(15, PyList(<<4, 5>>)),
   PairLine(12, PyList(<<4, 5>>)), ItemLine, ScalarLine, CommentLine,
   BrokenLine}

YamlTexts == SeqsUpTo(YamlLines, MaxLines)

\* DEFAULT_MAPPING_YAML: comment lines only
DEFAULT_MAPPING_YAML == <<CommentLine, CommentLine, CommentLine, CommentLine>>

ParseError == [ok |-> FALSE, value |-> PyNone]
Loaded(v) == [ok |-> TRUE, value |-> v]

\* a block mapping as a dict: the last pair of a key wins
DictOf(lines) ==
  [key \in {lines[k].key : k \in 1..Len(lines)} |->
     lines[CHOOSE k \in 1..Len(lines) :
             /\ lines[k].key = key
             /\ \A j \in (k + 1)..Len(lines) : lines[j].key # key].value]

RECURSIVE FoldedScalar(_)
\* plain scalar lines fold into one str, joined by spaces
FoldedScalar(lines) ==
  IF Len(lines) = 1 THEN DecStr(lines[1].value.v)
  ELSE DecStr(Head(lines).value.v) \o <<" ">> \o FoldedScalar(Tail(lines))

\* yaml.safe_load(text): None for a document without content, a dict for a
\* block mapping, a list for a block sequence, the scalar for a plain scalar;
\* a rejected line or a mix of kinds is a parse error
SafeLoad(text) ==
  LET lines == SelectSeq(text, LAMBDA l : l.kind # "comment")
      All(kind) == \A k \in 1..Len(lines) : lines[k].kind = kind
  IN IF lines = <<>> THEN Loaded(PyNone)
     ELSE IF All("pair") THEN Loaded(PyDict(DictOf(lines)))
     ELSE IF All("item")
       THEN Loaded(PyList([k \in 1..Len(lines) |-> lines[k].value.v]))
     ELSE IF All("scalar")
       THEN Loaded(IF Len(lines) = 1 THEN lines[1].value
                                     ELSE PyStr(FoldedScalar(lines)))
     ELSE ParseError

RECURSIVE SafeDumpLines(_, _)
\* yaml.safe_dump(d, default_flow_style=False): one pair per key, keys sorted
SafeDumpLines(d, keys) ==
  IF keys = {} THEN <<>>
  ELSE LET least == CHOOSE k \in keys : \A j \in keys : k <= j
       IN <<PairLine(least, d[least])>> \o SafeDumpLines(d, keys \ {least})

\* the text the form is filled with
DefaultMapping(current_mapping) ==
  IF current_mapping = PyNone THEN DEFAULT_MAPPING_YAML
  ELSE SafeDumpLines(current_mapping.v, DOMAIN current_mapping.v)

\* user_input: None (the step is entered without a submission), or a
\* submission with the mapping text, or one without the "mapping" key
OptionsInputs ==
  {[kind |-> "none", mapping |-> <<>>], [kind |-> "missing", mapping |-> <<>>]}
    \cup {[kind |-> "text", mapping |-> t] : t \in YamlTexts}

\* yaml.safe_load(user_input.get("mapping")): safe_load(None) raises
LoadMapping(user_input) ==
  IF user_input.kind = "text" THEN SafeLoad(user_input.mapping) ELSE ParseError

\* a validation that takes whatever parses
MappingErrorsParseOnly(user_input) ==
  IF ~LoadMapping(user_input).ok
    THEN {<<"mapping", "Invalid YAML format.">>}
    ELSE {}

\* the errors dict of async_step_user (options_flow.py)
MappingErrors(user_input) ==
  IF ~LoadMapping(user_input).ok
    THEN {<<"mapping", "Invalid YAML format.">>}
  ELSE IF LoadMapping(user_input).value.t # "dict"
    THEN {<<"mapping", "Mapping must be a YAML dictionary.">>}
    ELSE {}

\* SmarthomeOptionsFlow.async_step_user (options_flow.py)
OptionsStepUser ==
  /\ \E user_input \in OptionsInputs :
       IF user_input.kind # "none" /\ MappingErrors(user_input) = {}
         THEN /\ options' = LoadMapping(user_input).value
              /\ options_flow' = [type |-> "create_entry", errors |-> {},
                                  default |-> <<>>, user_input |-> user_input]
         ELSE /\ options' = options
              /\ options_flow' =
                   [type |-> "form",
                    errors |-> IF user_input.kind = "none"
                                 THEN {} ELSE MappingErrors(user_input),
                    default |-> DefaultMapping(options),
                    user_input |-> user_input]
  /\ UNCHANGED <<entries, entities, forwarded, flow>>
  /\ UNCHANGED chanVars

\* the options flow of a config entry whose options are empty
InitOptions == InitHub

NextOptions == OptionsStepUser

SpecOptions == InitOptions /\ [][NextOptions]_vars


(***************************************************************************)
(* Properties.                                                             *)
(***************************************************************************)
IsLight == self.platform = "light"
On == PyBool(TRUE)
Off == PyBool(FALSE)

\* this step is a run of _message_received
HandlerRan == received' = received + 1

\* the channel has been detached: the handle it holds has been invoked
Detached ==
  /\ detach_calls > 0
  /\ \E k \in 1..Len(unsubscribe_log) : unsubscribe_log[k] = unsubscribe_mqtt

\* C1: a handler run of a relay light whose decoded, stripped payload is "1"
\* leaves the cached state ON, "0" leaves it OFF, and any other value leaves
\* the cached state as it was and logs an error.
C1_RelayDecode ==
  [][(IsLight /\ HandlerRan /\ ~last'.raised) =>
       /\ (last'.final = <<"1">> => state' = On)
       /\ (last'.final = <<"0">> => state' = Off)
       /\ (LightUnexpected(last'.final) => state' = state /\ last'.errors >= 1)]_vars

\* a light that was ON got an unexpected payload, logged it and is still ON
C1_Witness ==
  /\ IsLight
  /\ last.op = "message"
  /\ ~last.raised
  /\ LightUnexpected(last.final)
  /\ last.errors >= 1
  /\ state = On

\* C2: a handler run on a detached channel changes neither the cached state
\* nor the number of state-change notifications.
C2_DetachedMessageInert ==
  [][(HandlerRan /\ Detached) =>
       (state' = state /\ ha_state_writes' = ha_state_writes)]_vars

\* C3: the cached state of a relay light changes only in a handler run, never
\* in a turn_on/turn_off step.
C3_CommandsKeepState ==
  [][IsLight =>
       /\ (commands' # commands => state' = state)
       /\ (state' # state => HandlerRan)]_vars

\* a light that is ON was told to turn off and is still ON
C3_Witness ==
  /\ IsLight
  /\ last.op = "turn_off"
  /\ published # <<>>
  /\ state = On

\* C4: a handler run whose value template failed leaves the cached state as
\* it was.
C4_TemplateFailureKeepsState ==
  [][(HandlerRan /\ last'.tplFailed) => state' = state]_vars

\* C5: no run of the message handler raises to the transport.
C5_HandlerNeverRaises == last.op = "message" => ~last.raised

\* C6: the number of state-change notifications equals the number of
\* successfully decoded messages.
C6_OneWritePerDecode == ha_state_writes = decoded_ok

\* C7: no unsubscribe handle is invoked more than once.
C7_UnsubscribeAtMostOnce ==
  \A j, k \in 1..Len(unsubscribe_log) :
    unsubscribe_log[j] = unsubscribe_log[k] => j = k

\* C8: under the identity template, after the handler run of the echo of a
\* turn_on the relay light is ON, and after that of a turn_off it is OFF.
C8_RoundTrip ==
  (/\ IsLight
   /\ self.value_template = DEFAULT_VALUE_TEMPLATE
   /\ last.op = "message"
   /\ last.echo # "none")
    => state = (IF last.echo = "turn_on" THEN On ELSE Off)

\* the echo of a turn_on has been handled and the light is ON
C8_Witness ==
  /\ IsLight
  /\ self.value_template = DEFAULT_VALUE_TEMPLATE
  /\ last.op = "message"
  /\ last.echo = "turn_on"
  /\ state = On

\* C9: each turn_on/turn_off adds exactly one publish, at QoS 1, to
\* modules/{module_id}/relays/{index}/set with payload "1" (turn_on) or "0"
\* (turn_off), and nothing else publishes.
C9_OnePublishPerCommand ==
  [][/\ (commands' # commands =>
           published' =
             Append(published,
                    [topic |-> <<"modules", DecStr(self.module_id), "relays",
                                 DecStr(self.index), "set">>,
                     payload |-> IF commands'[Len(commands')] = "turn_on"
                                   THEN <<"1">> ELSE <<"0">>,
                     qos |-> 1]))
     /\ (published' # published => Len(commands') = Len(commands) + 1)]_vars

\* a turn_on and then a turn_off, one publish each
C9_Witness ==
  /\ IsLight
  /\ commands = <<"turn_on", "turn_off">>
  /\ Len(published) = 2
  /\ published[2].payload = <<"0">>

\* C10: no two distinct channel entities have the same state topic.
C10_StateTopicsDistinct ==
  \A a, b \in EntityIds :
    a # b => EntityAt(a).state_topic # EntityAt(b).state_topic

(***************************************************************************)
(* C11  A configuration submission creates a config entry exactly when its  *)
(* module_id, relay_count and button_count convert to integers that are     *)
(* all at least 0 and the two counts are not both 0 (a count left out is    *)
(* 0).  Every other submission creates no entry and shows the form again    *)
(* with at least one error.                                                 *)
(***************************************************************************)
Convertible(x) == x.t = "int" \/ (x.t = "str" /\ IsIntLiteral(x.v))

Acceptable(u) ==
  /\ u.module_id # Missing
  /\ Convertible(u.module_id)
  /\ Convertible(GetOr0(u.relay_count))
  /\ Convertible(GetOr0(u.button_count))
  /\ IntOf(u.module_id) >= 0
  /\ IntOf(GetOr0(u.relay_count)) >= 0
  /\ IntOf(GetOr0(u.button_count)) >= 0
  /\ ~(IntOf(GetOr0(u.relay_count)) = 0 /\ IntOf(GetOr0(u.button_count)) = 0)

Submitted ==
  /\ flow' # flow \/ entries' # entries
  /\ flow'.user_input # NoUserInput

C11_EntryIffValid ==
  [][Submitted =>
       IF Acceptable(flow'.user_input)
         THEN /\ entries' = Append(entries, flow'.user_input)
              /\ flow'.type = "create_entry"
         ELSE /\ entries' = entries
              /\ flow'.type = "form"
              /\ flow'.errors # {}]_vars

\* one entry was created, then a submission with both counts 0 was rejected
C11_Witness ==
  /\ Len(entries) = 1
  /\ flow.type = "form"
  /\ flow.errors = {"base"}
  /\ flow.user_input.module_id = PyInt(0)
  /\ flow.user_input.relay_count = PyInt(0)
  /\ flow.user_input.button_count = Missing

(***************************************************************************)
(* C12  Setting up an accepted entry registers, in a single batch, exactly  *)
(* relay_count relay channels with indices 0..relay_count-1 followed by     *)
(* button_count button channels with indices 0..button_count-1, all of the  *)
(* entry's module, with pairwise distinct identities and unique_ids.        *)
(***************************************************************************)
IsChannel(e, module_id, device_type, index) ==
  /\ e.module_id = module_id
  /\ e.device_type = device_type
  /\ e.index = index

C12_SetupBatch ==
  /\ Len(entities) = Len(forwarded)
  /\ \A k \in 1..Len(forwarded) :
       LET data == entries[forwarded[k]]
           batch == entities[k]
           relay_count == IntOf(GetOr0(data.relay_count))
           button_count == IntOf(GetOr0(data.button_count))
       IN /\ Len(batch) = relay_count + button_count
          /\ \A i \in 0..(relay_count - 1) :
               IsChannel(batch[i + 1], IntOf(data.module_id), "relay", i)
          /\ \A i \in 0..(button_count - 1) :
               IsChannel(batch[relay_count + i + 1], IntOf(data.module_id),
                         "button", i)
          /\ \A x, y \in 1..Len(batch) :
               x # y =>
                 /\ batch[x].unique_id # batch[y].unique_id
                 /\ <<batch[x].module_id, batch[x].device_type, batch[x].index>>
                      # <<batch[y].module_id, batch[y].device_type,
                          batch[y].index>>

\* an entry with the largest number of relays and of buttons has been set up
C12_Witness ==
  /\ Len(forwarded) = 1
  /\ GetOr0(entries[forwarded[1]].relay_count) = PyInt(MaxCount)
  /\ GetOr0(entries[forwarded[1]].button_count) = PyInt(MaxCount)
  /\ Len(entities) = 1
  /\ Len(entities[1]) = 2 * MaxCount

(***************************************************************************)
(* C19  Only the sensor platform is forwarded: no entity the hub registers  *)
(* is a relay light, and no message is published to a command topic.        *)
(***************************************************************************)
C19_NoLightNoCommand ==
  /\ \A id \in EntityIds : EntityAt(id).platform = "sensor"
  /\ published = <<>>

\* every entry has been set up and relays are among the registered entities
C19_Witness ==
  /\ Len(forwarded) = MaxEntries
  /\ \E id \in EntityIds : EntityAt(id).device_type = "relay"

(***************************************************************************)
(* C20  The cached state of a relay light (light.py) is a boolean in every  *)
(* reachable state: False at construction, True or False afterwards, never  *)
(* unset.                                                                   *)
(***************************************************************************)
C20_LightStateBoolean ==
  IsLight =>
    /\ state \in {On, Off}
    /\ (last.op = "init" => state = Off)

\* a light that handled messages and commands and is ON
C20_Witness ==
  /\ IsLight
  /\ received >= 2
  /\ Len(commands) >= 1
  /\ last.op = "message"
  /\ last.errors >= 1
  /\ state = On

(***************************************************************************)
(* C15  Over any sequence of attach and detach calls the channel holds at   *)
(* most one active subscription, every subscription is on its own state     *)
(* topic at QoS 1, and after a detach it holds none.                        *)
(***************************************************************************)
C15_AtMostOneSubscription ==
  /\ Cardinality(mqtt_subscriptions) <= 1
  /\ \A s \in mqtt_subscriptions :
       s.topic = self.state_topic /\ s.qos = 1
  /\ (last.op = "detach" => mqtt_subscriptions = {})

(***************************************************************************)
(* C16  Handling an inbound message never publishes: a handler run of any   *)
(* channel leaves the published messages as they were.                      *)
(***************************************************************************)
C16_HandlerNeverPublishes ==
  [][HandlerRan => published' = published]_vars

\* the echo of a turn_on was handled and the one publish is still the only one
C16_Witness ==
  /\ IsLight
  /\ Len(published) = 1
  /\ last.op = "message"
  /\ last.echo = "turn_on"
  /\ state = On

(***************************************************************************)
(* C17  The cached state of a sensor channel is unset (None) before the     *)
(* first message and is afterwards the decoded value of the most recently   *)
(* handled message, stored as it is.                                        *)
(***************************************************************************)
IsSensor == self.platform = "sensor"

\* the values the decode of the text can yield under the channel's template
DecodedValues(value_template, text, tplFailed) ==
  IF value_template = NO_TEMPLATE \/ tplFailed THEN {PyStr(text)}
  ELSE IF value_template = DEFAULT_VALUE_TEMPLATE THEN {RenderIdentity(text)}
  ELSE CustomResults

C17_SensorStateIsLastDecoded ==
  IsSensor =>
    /\ (received = 0 => state = PyNone)
    /\ (last.op = "message" =>
          /\ ~last.raised
          /\ state \in DecodedValues(self.value_template, last.final,
                                     last.tplFailed))

(***************************************************************************)
(* C14  A button channel fires exactly one "button pressed" event for each  *)
(* message whose decoded value is the press marker, the integer 1, and none *)
(* for any other message.                                                   *)
(***************************************************************************)
IsButton == IsSensor /\ self.device_type = "button"

C14_OnePressPerMarker ==
  (IsButton /\ last.op = "message" /\ ~last.raised) =>
     last.events = (IF state = PyInt(1) THEN 1 ELSE 0)

(***************************************************************************)
(* C18  An optimistic light (lights.py) sets its cached state, True for     *)
(* turn_on and False for turn_off, and notifies the host only after the     *)
(* publish has completed; when the publish fails the cached state is as it  *)
(* was and no notification is made.                                         *)
(***************************************************************************)
IsOptimistic == self.platform = "lights"

CommandRan == Len(commands') = Len(commands) + 1

C18_OptimisticAfterPublish ==
  [][(IsOptimistic /\ CommandRan) =>
       /\ Len(published') = Len(published) + 1
       /\ IF Len(published') \in publish_failed'
            THEN /\ state' = state
                 /\ ha_state_writes' = ha_state_writes
            ELSE /\ state' = PyBool(commands'[Len(commands')] = "turn_on")
                 /\ ha_state_writes' = ha_state_writes + 1]_vars

\* a turn_off went through, then the publish of a turn_on failed: still OFF,
\* one notification
C18_Witness ==
  /\ IsOptimistic
  /\ commands = <<"turn_off", "turn_on">>
  /\ publish_failed = {2}
  /\ state = Off
  /\ ha_state_writes = 1

(***************************************************************************)
(* C13  The options flow stores a new mapping exactly when the submitted    *)
(* text parses and its root is a dictionary; for a scalar, a sequence, a    *)
(* document without content or a parse error it reports exactly one error,  *)
(* leaves the stored mapping as it was and shows the form again.  So the    *)
(* stored mapping is always unset or a dictionary.                          *)
(***************************************************************************)
OptionsSubmitted ==
  /\ options_flow' # options_flow \/ options' # options
  /\ options_flow'.user_input.kind # "none"

RootIsDict(user_input) ==
  /\ user_input.kind = "text"
  /\ SafeLoad(user_input.mapping).ok
  /\ SafeLoad(user_input.mapping).value.t = "dict"

C13_MappingStoredIffDict ==
  /\ [](options.t \in {"none", "dict"})
  /\ [][OptionsSubmitted =>
          IF RootIsDict(options_flow'.user_input)
            THEN /\ options' = SafeLoad(options_flow'.user_input.mapping).value
                 /\ options_flow'.type = "create_entry"
            ELSE /\ options' = options
                 /\ options_flow'.type = "form"
                 /\ Cardinality(options_flow'.errors) = 1]_vars

\* a mapping is stored, then a sequence was submitted: one error, the form is
\* filled with the stored mapping
C13_Witness ==
  /\ options = PyDict(DictOf(<<PairLine(12, PyInt(4))>>))
  /\ options_flow.type = "form"
  /\ options_flow.user_input.mapping = <<ItemLine>>
  /\ options_flow.errors = {<<"mapping", "Mapping must be a YAML dictionary.">>}
  /\ options_flow.default = <<PairLine(12, PyInt(4))>>

====
